---------------------------- MODULE Spec2Model ----------------------------
(***************************************************************************)
(* A model of the Patch Text parser and IPS writer of PCHTXT2IPS           *)
(* (src/pchtxt/pchtxt.cpp).  Text is modelled as TLA+ strings, a character *)
(* as a string of length one, a byte as a number in 0..255.                *)
(***************************************************************************)
EXTENDS Integers, Sequences, FiniteSets, TLC

(***************************************************************************)
(* Characters                                                              *)
(***************************************************************************)

\* The printable ASCII characters of code 32 (space) to 95 (_), in order, and of
\* code 97 (a) to 126 (~): a TLA+ string cannot hold code 96.
AsciiLow == " !\"#$%&'()*+,-./0123456789:;<=>?@ABCDEFGHIJKLMNOPQRSTUVWXYZ[\\]^_"

AsciiHigh == "abcdefghijklmnopqrstuvwxyz{|}~"

At(str, i) == SubSeq(str, i, i)

\* The characters a line is made of.
Chars ==
    {At(AsciiLow, i) : i \in 1..Len(AsciiLow)}
        \cup {At(AsciiHigh, i) : i \in 1..Len(AsciiHigh)}
        \cup {"\t"}

\* The character code of every character.
OrdTable ==
    [ch \in Chars |->
        IF ch = "\t" THEN 9
        ELSE IF \E i \in 1..Len(AsciiHigh) : At(AsciiHigh, i) = ch
             THEN 96 + (CHOOSE i \in 1..Len(AsciiHigh) : At(AsciiHigh, i) = ch)
             ELSE 31 + (CHOOSE i \in 1..Len(AsciiLow) : At(AsciiLow, i) = ch)]

\* The character code of a one-character string.
Ord(ch) == OrdTable[ch]

\* The one-character string of a printable character code.
Chr(code) ==
    IF code = 9 THEN "\t"
    ELSE IF code >= 97 THEN At(AsciiHigh, code - 96) ELSE At(AsciiLow, code - 31)

\* std::isspace in the "C" locale, on a character code
IsSpaceCode(c) == c \in {9, 10, 11, 12, 13, 32}

IsSpace(ch) == IsSpaceCode(Ord(ch))

\* std::isxdigit, on a character code
IsXDigitCode(c) ==
    (c >= 48 /\ c <= 57) \/ (c >= 65 /\ c <= 70) \/ (c >= 97 /\ c <= 102)

IsXDigit(ch) == IsXDigitCode(Ord(ch))

\* std::tolower, on a character code
ToLowerCode(c) == IF c >= 65 /\ c <= 90 THEN c + 32 ELSE c

ToLowerChar(ch) == Chr(ToLowerCode(Ord(ch)))

\* The bytes of a string (std::vector<uint8_t>{begin(str), end(str)}).
Bytes(str) == [i \in 1..Len(str) |-> Ord(At(str, i))]

(***************************************************************************)
(* utils                                                                   *)
(***************************************************************************)

\* std::string::substr(pos) with pos counted from 0
SubstrFrom(str, pos) == SubSeq(str, pos + 1, Len(str))

\* std::string::substr(pos, count) with pos counted from 0
Substr(str, pos, count) ==
    SubSeq(str, pos + 1, IF pos + count > Len(str) THEN Len(str) ELSE pos + count)

\* std::string::npos.  It is the largest size_t; the model keeps it as a value
\* apart from every position and spells out the size_t arithmetic where it is used.
Npos == -1

\* The least member of a non-empty set of positions.
Least(idx) == CHOOSE i \in idx : \A j \in idx : i <= j

\* The greatest member of a non-empty set of positions.
Greatest(idx) == CHOOSE i \in idx : \A j \in idx : j <= i

\* std::string::rfind of a one-character string: 0-based position or Npos
LastOf(hits) == IF hits = {} THEN Npos ELSE Greatest(hits) - 1

RFind(str, ch) == LastOf({i \in 1..Len(str) : At(str, i) = ch})

isStartsWith(checkedStr, targetStr) ==
    /\ Len(checkedStr) >= Len(targetStr)
    /\ SubSeq(checkedStr, 1, Len(targetStr)) = targetStr

\* 1-based position of the first non-space character, Len + 1 when there is none
FirstOr(idx, none) == IF idx = {} THEN none ELSE Least(idx)

FirstNonSpace(str) ==
    FirstOr({i \in 1..Len(str) : ~IsSpace(At(str, i))}, Len(str) + 1)

\* 1-based position of the last non-space character, 0 when there is none
LastOr(idx, none) == IF idx = {} THEN none ELSE Greatest(idx)

LastNonSpace(str) ==
    LastOr({i \in 1..Len(str) : ~IsSpace(At(str, i))}, 0)

ltrim(str) == SubSeq(str, FirstNonSpace(str), Len(str))

rtrim(str) == SubSeq(str, 1, LastNonSpace(str))

trim(str) == rtrim(ltrim(str))

firstToken(str) ==
    SubSeq(str, 1, FirstOr({i \in 1..Len(str) : IsSpace(At(str, i))}, Len(str) + 1) - 1)

\* The loop of commentPos: the number of characters before the first '/' that is
\* met while isInString is false; every '"' toggles isInString.
RECURSIVE CommentScan(_, _, _)
CommentScan(str, i, isInString) ==
    IF i > Len(str) THEN Len(str)
    ELSE IF At(str, i) = "/" /\ ~isInString THEN i - 1
    ELSE CommentScan(str, i + 1,
                     IF At(str, i) = "\"" THEN ~isInString ELSE isInString)

commentPos(str) == CommentScan(str, 1, FALSE)

getLineCommentContent(str) ==
    SubSeq(str,
           FirstOr({i \in (commentPos(str) + 1)..Len(str) :
                       ~(IsSpace(At(str, i)) \/ At(str, i) = "/")},
                   Len(str) + 1),
           Len(str))

getLineNoComment(lineStr) == rtrim(SubSeq(lineStr, 1, commentPos(lineStr)))

RECURSIVE getStringToLowerCase(_)
getStringToLowerCase(str) ==
    IF Len(str) = 0 THEN ""
    ELSE ToLowerChar(At(str, 1)) \o getStringToLowerCase(SubSeq(str, 2, Len(str)))

stringIsHex(str) == \A i \in 1..Len(str) : IsXDigit(At(str, i))

\* str.erase(0, std::min(str.find_first_not_of('0'), str.size() - 1)): the
\* leading zeros go, but never the last character.  In size_t arithmetic both
\* find_first_not_of (npos) on a string of zeros and size() - 1 on the empty
\* string are the largest value, and erase stops at the end of the string.
\* The number of characters erase(0, n) takes from a string of length len
EraseCount(n, len) == IF n < len THEN n ELSE len

\* find_first_not_of('0') as a count, the length when every character is '0'
LeadingZeros(str, idx) == IF idx = {} THEN Len(str) ELSE Least(idx) - 1

trimZeros(str) ==
    SubSeq(str,
           EraseCount(LeadingZeros(str, {i \in 1..Len(str) : At(str, i) # "0"}),
                      IF Len(str) = 0 THEN 0 ELSE Len(str) - 1) + 1,
           Len(str))

\* The character code an escape sequence \ch stands for.
EscapedChar(ch) ==
    CASE ch = "a" -> 7
      [] ch = "b" -> 8
      [] ch = "f" -> 12
      [] ch = "n" -> 10
      [] ch = "r" -> 13
      [] ch = "t" -> 9
      [] ch = "v" -> 11
      [] OTHER    -> Ord(ch)

\* escapeString, left to right from position i; the result as character codes.
RECURSIVE EscapeFrom(_, _)
EscapeFrom(str, i) ==
    IF i > Len(str) THEN <<>>
    ELSE IF At(str, i) = "\\" /\ i + 1 <= Len(str)
         THEN <<EscapedChar(At(str, i + 1))>> \o EscapeFrom(str, i + 2)
         ELSE <<Ord(At(str, i))>> \o EscapeFrom(str, i + 1)

escapeString(str) == EscapeFrom(str, 1)

\* getHexCharNibble, on a character code
NibbleOfCode(c) ==
    IF c >= 65 /\ c <= 70 THEN c - 65 + 10
    ELSE IF c >= 97 /\ c <= 102 THEN c - 97 + 10
    ELSE (c - 48) % 256

getHexCharNibble(ch) == NibbleOfCode(Ord(ch))

\* getHexByte on the two characters at 1-based position i
getHexByte(str, i) ==
    (getHexCharNibble(At(str, i)) * 16 + getHexCharNibble(At(str, i + 1))) % 256

(***************************************************************************)
(* 32-bit unsigned values.  TLC's integers are narrower than uint32_t, so  *)
(* a uint32_t is the pair <<hi, lo>> of its 16-bit halves: hi * 65536 + lo.*)
(***************************************************************************)

Half == 65536

U32Zero == <<0, 0>>

\* Unsigned addition modulo 2^32.
U32Add(a, b) ==
    <<(a[1] + b[1] + ((a[2] + b[2]) \div Half)) % Half, (a[2] + b[2]) % Half>>

\* The two's complement of a 32-bit pattern: (2^32 - a) modulo 2^32.
U32Neg(a) == U32Add(<<(Half - 1) - a[1], (Half - 1) - a[2]>>, <<0, 1>>)

\* The four bytes of a uint32_t, most significant first.
U32BytesBE(a) == <<a[1] \div 256, a[1] % 256, a[2] \div 256, a[2] % 256>>

\* The value of one digit in a base, -1 when the character is no digit of it.
DigitOfCode(c) ==
    IF c >= 48 /\ c <= 57 THEN c - 48
    ELSE IF c >= 97 /\ c <= 122 THEN c - 97 + 10
    ELSE IF c >= 65 /\ c <= 90 THEN c - 65 + 10
    ELSE -1

DigitInBase(v, base) == IF v >= 0 /\ v < base THEN v ELSE -1

DigitValue(ch, base) == DigitInBase(DigitOfCode(Ord(ch)), base)

\* The digits of str from position i on that belong to the base, accumulated on
\* acc = [val, over, n]: the value so far as a uint32_t, whether it has passed
\* 2^32 - 1, and how many digits were taken.
\* acc with the 32-bit value <<hi, lo>> before reduction, one digit more
Accumulated(acc, hi, lo) ==
    [val  |-> <<hi % Half, lo % Half>>,
     over |-> acc.over \/ hi >= Half,
     n    |-> acc.n + 1]

\* acc * base + d
AddDigit(acc, base, d) ==
    Accumulated(acc,
                acc.val[1] * base + ((acc.val[2] * base + d) \div Half),
                acc.val[2] * base + d)

RECURSIVE Accumulate(_, _, _, _)
Accumulate(str, i, base, acc) ==
    IF i > Len(str) \/ DigitValue(At(str, i), base) < 0 THEN acc
    ELSE Accumulate(str, i + 1, base,
                    AddDigit(acc, base, DigitValue(At(str, i), base)))

NoDigits == [val |-> U32Zero, over |-> FALSE, n |-> 0]

\* std::stoul(str, nullptr, 16) of a string of at most 8 hex digits
stoul16(str) == Accumulate(str, 1, 16, NoDigits).val

\* std::stoi(str, nullptr, 0): strtol with the base taken from the prefix, then
\* the range check of int.  [threw, val]: whether std::invalid_argument (no
\* digits) or std::out_of_range is thrown, and otherwise the int as its 32-bit
\* two's complement pattern.
\* The range check of int on the digits taken: INT_MAX is 0x7fffffff and
\* INT_MIN is -0x80000000.
stoiResult(acc, neg) ==
    IF \/ acc.n = 0
       \/ acc.over
       \/ ~(acc.val[1] < Half \div 2 \/ (neg /\ acc.val = <<Half \div 2, 0>>))
    THEN [threw |-> TRUE, val |-> U32Zero]
    ELSE [threw |-> FALSE, val |-> IF neg THEN U32Neg(acc.val) ELSE acc.val]

\* The digits after the sign: hexadecimal after 0x or 0X followed by a hex
\* digit, octal after 0, decimal otherwise.
stoiDigits(s1) ==
    IF /\ Len(s1) >= 3
       /\ At(s1, 1) = "0"
       /\ At(s1, 2) \in {"x", "X"}
       /\ DigitValue(At(s1, 3), 16) >= 0
    THEN Accumulate(s1, 3, 16, NoDigits)
    ELSE IF Len(s1) >= 1 /\ At(s1, 1) = "0"
    THEN Accumulate(s1, 1, 8, NoDigits)
    ELSE Accumulate(s1, 1, 10, NoDigits)

\* strtol after the leading white space
stoiSigned(s0) ==
    IF Len(s0) >= 1 /\ At(s0, 1) \in {"-", "+"}
    THEN stoiResult(stoiDigits(SubSeq(s0, 2, Len(s0))), At(s0, 1) = "-")
    ELSE stoiResult(stoiDigits(s0), FALSE)

stoi0(str) == stoiSigned(ltrim(str))

(***************************************************************************)
(* Data model (pchtxt.hpp)                                                 *)
(***************************************************************************)

\* PatchContent{offset, value}
PatchContent(offset, value) == [offset |-> offset, value |-> value]

\* Patch{}: value-initialised, so type is BIN (the first enumerator)
NewPatch ==
    [name |-> "", author |-> "", type |-> "BIN", enabled |-> FALSE,
     lineNum |-> 0, contents |-> <<>>]

\* PatchCollection{}: targetType is NSO (the first enumerator)
NewPatchCollection == [buildId |-> "", targetType |-> "NSO", patches |-> <<>>]

\* PatchTextMeta{}
NewPatchTextMeta == [title |-> "", programId |-> "", url |-> ""]

\* PatchTextOutput{}
NewPatchTextOutput == [meta |-> NewPatchTextMeta, collections |-> <<>>]

\* One event on the diagnostic stream logOs: the line number it carries (0 when
\* the message carries none), the kind of message and the text put into it.
Event(ln, ev, text) == [ln |-> ln, ev |-> ev, text |-> text]

(***************************************************************************)
(* Bounds and the inputs explored                                          *)
(***************************************************************************)

\* The most lines a metadata block holds before the line that ends it.
MaxMetaLines == 2

\* The most lines that follow the metadata block's last line.
MaxBodyLines == 4

\* The most lines that follow it in the inputs about build ids, which need more
\* lines to seal, leave and reopen a collection.
MaxBuildIdLines == 7

\* The most lines that follow it in the inputs about patches and cheats, which
\* need more lines to seal a collection and then fail.
MaxPatchLines == 5

\* The most lines that follow it in the inputs about offsets, which need more
\* lines to shift the offsets twice.
MaxOffsetLines == 5

\* The most lines that follow it in the inputs about legacy build id tags.
MaxLegacyLines == 7

\* The most lines that follow it in the inputs about string values.
MaxStringLines == 3

\* The most lines that follow a metadata block that has lines.
MaxAfterMetaLines == 3

\* The most lines of a metadata block before the line that ends it in the
\* inputs whose metadata block runs into the patches and ends with @stop.
MaxStopMetaLines == 4

\* The most lines of the metadata block, which gives the build id, and the most
\* lines that follow it, in the inputs about the names of patches.
MaxNameMetaLines == 1

MaxNameLines == 5

\* The most lines that follow it in the inputs about ignored lines.
MaxIgnoredLines == 5

\* The inputs explored, by family: the most lines of a metadata block and the
\* lines it is drawn from, the lines the rest of the file is drawn from, and the
\* most lines in that rest.
Corpora ==
    { [name  |-> "build ids",
       metaDepth |-> MaxMetaLines,
       meta  |-> {},
       body  |-> {"@flag nsobid AB", "@flag nsobid ab", "@enabled", "0100 DEAD"},
       depth |-> MaxBuildIdLines],
      [name  |-> "legacy build ids",
       metaDepth |-> MaxMetaLines,
       meta  |-> {},
       body  |-> {"@flag nsobid AB", "@nsobid CD", "@enabled", "0100 DEAD"},
       depth |-> MaxLegacyLines],
      [name  |-> "patches",
       metaDepth |-> MaxMetaLines,
       meta  |-> {},
       body  |-> {"@flag nsobid AB", "@flag nrobid", "@enabled", "@disabled heap",
                  "[cheat 1]", "04000000 0100 2", "@nsobid", "@ENABLED ams // x"},
       depth |-> MaxPatchLines],
      [name  |-> "offsets",
       metaDepth |-> MaxMetaLines,
       meta  |-> {},
       body  |-> {"@nsobid AB", "@enabled", "@flag offset_shift 0x10",
                  "@flag offset_shift -1", "@flag offset_shift", "00000000 01",
                  "FFFFFFFF 02", "123456789 03", "xyz 04"},
       depth |-> MaxOffsetLines],
      [name  |-> "values",
       metaDepth |-> MaxMetaLines,
       meta  |-> {},
       body  |-> {"@nsobid AB", "@enabled", "@flag be", "@flag LE", "10 0A0B",
                  "10 0a0b 01020304 // note", "20 0A0", "20 0A0G", "30"},
       depth |-> MaxBodyLines],
      [name  |-> "strings",
       metaDepth |-> MaxMetaLines,
       meta  |-> {},
       body  |-> {"@nsobid AB", "@enabled", "0 \"he said \\\"hi\\\"\"",
                  "0 \"Hi\"", "0 \"a/b\\n\"", "0 \"a\\\\\"", "0 \"abc", "0 \"\""},
       depth |-> MaxStringLines],
      [name  |-> "meta",
       metaDepth |-> MaxMetaLines,
       meta  |-> {"@title \"T\"", "# legacy", "@stop", "@nsobid AB", "@enabled",
                  "00 01", "@url http://u", "# second / c"},
       body  |-> {"@enabled", "00 01", "@stop"},
       depth |-> MaxAfterMetaLines],
      [name  |-> "other",
       metaDepth |-> MaxMetaLines,
       meta  |-> {},
       body  |-> {"@nsobid AB", "@enabled", "/ name [me]", "# echo", "@what",
                  "@flag debug_info", "@flag what", "@stop", "00 01", "@title x"},
       depth |-> MaxBodyLines],
      [name  |-> "ignored lines",
       metaDepth |-> MaxMetaLines,
       meta  |-> {},
       body  |-> {"@nsobid AB", "@enabled", "@flag debug_info", "xyz 04", "@what",
                  "@flag what"},
       depth |-> MaxIgnoredLines],
      [name  |-> "names",
       metaDepth |-> MaxNameMetaLines,
       meta  |-> {"@nsobid AB"},
       body  |-> {"/ n [a] [ me ]", "/ plain", "[cheat 1]", "@enabled",
                  "04000000 0100 2", "00 01"},
       depth |-> MaxNameLines],
      [name  |-> "stop in metadata",
       metaDepth |-> MaxStopMetaLines,
       meta  |-> {"@nsobid AB", "@enabled", "00 01", "@stop"},
       body  |-> {"00 01", "@stop"},
       depth |-> MaxAfterMetaLines] }

(***************************************************************************)
(* What the two loops derive from a line, whatever the parsing status      *)
(***************************************************************************)

FirstChar(str) == IF Len(str) = 0 THEN "" ELSE At(str, 1)

\* What the loop of getPchtxtMeta does with a line it has read: "blank" and
\* "stop" leave the loop, "tag" is a line starting with '@', "echo" with '#'.
MetaKind(trimmed, noComment, curTag) ==
    IF trimmed = "" THEN "blank"
    ELSE IF FirstChar(noComment) = "@"
    THEN IF curTag = "@stop" THEN "stop" ELSE "tag"
    ELSE IF FirstChar(noComment) = "#" THEN "echo"
    ELSE "other"

\* A tag value without its quotation marks when it starts and ends with one.
Unquoted(curTagValue) ==
    IF /\ Len(curTagValue) > 0
       /\ At(curTagValue, 1) = "\""
       /\ At(curTagValue, Len(curTagValue)) = "\""
    THEN SubSeq(curTagValue, 2, Len(curTagValue) - 1)
    ELSE curTagValue

\* The value of a tag line: the rest of the line after the tag, left-trimmed.
MetaTagValue(noComment, curTag) ==
    Unquoted(ltrim(SubstrFrom(noComment, Len(curTag))))

\* META_TAGS
META_TAGS == {"@title", "@program", "@url", "@nsobid"}

\* The case of the main loop a (trimmed) line falls into: the switch on its
\* first character and, for '@', the chain of tests on the tag.
ParseKind(trimmed, lower, curTag) ==
    CASE FirstChar(trimmed) = "@" ->
           ( CASE curTag = "@stop" -> "stop"
               [] curTag \in {"@enabled", "@disabled"} -> "enabled"
               [] curTag = "@flag" -> "flag"
               [] /\ curTag \notin {"@stop", "@enabled", "@disabled", "@flag"}
                  /\ isStartsWith(lower, "@nsobid") -> "legacy"
               [] OTHER -> IF curTag \in META_TAGS THEN "metatag" ELSE "badtag" )
      [] FirstChar(trimmed) = "#" -> "echo"
      [] FirstChar(trimmed) = "[" -> "cheat"
      [] FirstChar(trimmed) = "/" -> "comment"
      [] OTHER                    -> "content"

\* The text of a @flag line after the tag.
FlagContent(noComment) == ltrim(SubstrFrom(noComment, Len("@flag")))

\* The first token of it, before it is lower-cased.
FlagToken(flagContent) == ltrim(firstToken(flagContent))

FlagType(flagContent) == getStringToLowerCase(FlagToken(flagContent))

FlagValue(flagContent) ==
    ltrim(SubstrFrom(flagContent, Len(FlagToken(flagContent))))

FlagKind(flagType) ==
    CASE flagType \in {"be", "le"}                   -> "endian"
      [] flagType \in {"nsobid", "nrobid"}           -> "buildId"
      [] flagType = "offset_shift"                   -> "offsetShift"
      [] flagType \in {"debug_info", "print_values"} -> "debugInfo"
      [] OTHER                                       -> "unknown"

\* What follows the first token (the offset) of the lower-cased line.
ValueStr(lower, offsetStr) == ltrim(SubstrFrom(lower, Len(offsetStr)))

\* The parts of a line: line after trim, lineNoComment, lineNoCommentLower,
\* its first token (curTag, offsetStr), the case each loop puts the line in, and
\* the parts of a tag, a flag and a content line.
Scanned(trimmed, noComment, lower, curTag, flagType, flagValue) ==
    [line      |-> trimmed,
     noComment |-> noComment,
     lower     |-> lower,
     curTag    |-> curTag,
     metaKind  |-> MetaKind(trimmed, noComment, curTag),
     metaValue |-> MetaTagValue(noComment, curTag),
     kind      |-> ParseKind(trimmed, lower, curTag),
     flagType  |-> flagType,
     flagKind  |-> FlagKind(flagType),
     flagValue |-> flagValue,
     valueStr  |-> ValueStr(lower, curTag)]

ScanFlag(trimmed, noComment, lower, flagContent) ==
    Scanned(trimmed, noComment, lower, firstToken(lower),
            FlagType(flagContent), FlagValue(flagContent))

ScanNoComment(trimmed, noComment) ==
    ScanFlag(trimmed, noComment, getStringToLowerCase(noComment),
             FlagContent(noComment))

ScanTrimmed(trimmed) == ScanNoComment(trimmed, getLineNoComment(trimmed))

ScanLine(str) == ScanTrimmed(trim(str))

\* Every line of the inputs explored, with its parts.
ScanTable ==
    [str \in UNION {c.meta \cup c.body : c \in Corpora} \cup {""} |-> ScanLine(str)]

(***************************************************************************)
(* State                                                                   *)
(***************************************************************************)

VARIABLES
    corpus,             \* the family the input is drawn from (never changes)
    input,              \* std::istream& input: the file and the stream state
    logOs,              \* std::ostream& logOs: the events written so far
    pc,                 \* where control is: "meta", "metaEnd", "parse", "seal", "done"
    outcome,            \* "running", "returned", "aborted" (return {}) or "threw"
    output,             \* the PatchTextOutput parsePchtxt returned
    line,               \* the line read last (after trim)
    metaResult,         \* getPchtxtMeta: result
    legacyTitle,        \* getPchtxtMeta: legacyTitle
    metaLineNum,        \* getPchtxtMeta: curLineNum
    result,             \* parsePchtxt: result
    curLineNum,         \* parsePchtxt: curLineNum
    lastCommentLine,    \* parsePchtxt: lastCommentLine
    curPatch,           \* parsePchtxt: curPatch
    curPatchCollection, \* parsePchtxt: curPatchCollection
    curOffsetShift,     \* parsePchtxt: curOffsetShift, as its 32-bit pattern
    curIsBigEndian,     \* parsePchtxt: curIsBigEndian
    isAcceptingPatch,   \* parsePchtxt: isAcceptingPatch
    stopParsing,        \* parsePchtxt: stopParsing
    logDebugInfo,       \* parsePchtxt: logDebugInfo
    ipsIn,              \* writeIps: patchCollection
    ipsOut,             \* writeIps: the bytes written to ostream
    ipsDone             \* writeIps has run

streamVars == <<corpus, input, logOs, pc, outcome, output, line>>
metaVars   == <<metaResult, legacyTitle, metaLineNum>>
parseVars  == <<result, curLineNum, lastCommentLine, curPatch, curPatchCollection,
                curOffsetShift, curIsBigEndian, isAcceptingPatch, stopParsing,
                logDebugInfo>>
\* the parsing status a line leaves alone when it only moves to the next line
parseVarsButLine == <<result, lastCommentLine, curPatch, curPatchCollection,
                      curOffsetShift, curIsBigEndian, isAcceptingPatch, stopParsing,
                      logDebugInfo>>
ipsVars    == <<ipsIn, ipsOut, ipsDone>>
vars       == <<streamVars, metaVars, parseVars, ipsVars>>

(***************************************************************************)
(* The input stream                                                        *)
(***************************************************************************)

\* A stream on a file of which no line is known yet.  lines are the lines known
\* so far, pos the 1-based number of the next line to read, closed says that the
\* file has no line beyond lines, unterminated that its last line has no newline.
NewStream ==
    [lines |-> <<>>, pos |-> 1, eofbit |-> FALSE, failbit |-> FALSE,
     closed |-> FALSE, unterminated |-> FALSE]

\* The lines the file may continue with where it is not known yet.
NextLines ==
    IF pc = "meta"
    THEN IF Len(input.lines) < corpus.metaDepth THEN corpus.meta \cup {""} ELSE {""}
    ELSE IF Len(input.lines) - metaLineNum < corpus.depth THEN corpus.body ELSE {}

\* std::getline(input, line) on the stream as it is: the outcomes
\* [ok, str, stream].  A stream that is
\* not good() fails at once and sets failbit; a line ended by the end of the file
\* sets eofbit; no character left sets eofbit and failbit.
ReadLine ==
    IF input.eofbit \/ input.failbit
    THEN {[ok |-> FALSE, str |-> line, stream |-> [input EXCEPT !.failbit = TRUE]]}
    ELSE IF input.pos <= Len(input.lines)
    THEN {[ok     |-> TRUE,
           str    |-> input.lines[input.pos],
           stream |-> [input EXCEPT
                          !.pos = @ + 1,
                          !.eofbit = /\ input.pos = Len(input.lines)
                                     /\ input.closed
                                     /\ input.unterminated]]}
    ELSE IF input.closed
    THEN {[ok |-> FALSE, str |-> "",
           stream |-> [input EXCEPT !.eofbit = TRUE, !.failbit = TRUE]]}
    ELSE {[ok     |-> TRUE,
           str    |-> l,
           stream |-> [input EXCEPT !.lines = Append(@, l), !.pos = @ + 1]]
            : l \in NextLines}
         \cup
         {[ok     |-> TRUE,
           str    |-> l,
           stream |-> [input EXCEPT !.lines = Append(@, l), !.pos = @ + 1,
                                    !.eofbit = TRUE, !.closed = TRUE,
                                    !.unterminated = TRUE]]
            : l \in NextLines}
         \cup
         {[ok |-> FALSE, str |-> "",
           stream |-> [input EXCEPT !.eofbit = TRUE, !.failbit = TRUE,
                                    !.closed = TRUE]]}

\* The outcomes of std::getline, each with the parts of the line it read.
getline ==
    {[ok     |-> r.ok,
      str    |-> r.str,
      stream |-> r.stream,
      scan   |-> ScanTable[IF r.ok THEN r.str ELSE ""]] : r \in ReadLine}

\* input.seekg(curPos) with curPos the start of the file: eofbit is cleared
\* first; the position moves only if the stream has not failed.
seekg(stream) ==
    IF stream.failbit THEN [stream EXCEPT !.eofbit = FALSE]
    ELSE [stream EXCEPT !.eofbit = FALSE, !.pos = 1]

(***************************************************************************)
(* Initial state: parsePchtxt(input, logOs) is entered on a fresh stream.  *)
(***************************************************************************)

ParseInit ==
    /\ input = NewStream
    /\ logOs = <<>>
    /\ pc = "meta"
    /\ outcome = "running"
    /\ output = NewPatchTextOutput
    /\ line = ""
    /\ metaResult = NewPatchTextMeta
    /\ legacyTitle = ""
    /\ metaLineNum = 1
    /\ result = NewPatchTextOutput
    /\ curLineNum = 1
    /\ lastCommentLine = ""
    /\ curPatch = NewPatch
    /\ curPatchCollection = NewPatchCollection
    /\ curOffsetShift = U32Zero
    /\ curIsBigEndian = FALSE
    /\ isAcceptingPatch = FALSE
    /\ stopParsing = FALSE
    /\ logDebugInfo = FALSE

Init ==
    /\ corpus \in Corpora
    /\ ParseInit
    /\ ipsIn = NewPatchCollection
    /\ ipsOut = <<>>
    /\ ipsDone = FALSE

(***************************************************************************)
(* getPchtxtMeta                                                           *)
(***************************************************************************)

\* std::getline fails: the end of the file ends the metadata.
MetaEof ==
    /\ pc = "meta"
    /\ \E r \in getline :
        /\ ~r.ok
        /\ input' = r.stream
        /\ line' = r.str
    /\ logOs' = Append(logOs, Event(0, "meta parsing reached end of file", ""))
    /\ pc' = "metaEnd"
    /\ UNCHANGED <<corpus, outcome, output, metaVars, parseVars, ipsVars>>

\* An empty line ends the metadata.
MetaBlank ==
    /\ pc = "meta"
    /\ \E r \in getline :
        /\ r.ok
        /\ r.scan.metaKind = "blank"
        /\ input' = r.stream
        /\ line' = r.scan.line
    /\ logOs' = Append(logOs, Event(metaLineNum, "done parsing meta", ""))
    /\ pc' = "metaEnd"
    /\ UNCHANGED <<corpus, outcome, output, metaVars, parseVars, ipsVars>>

\* The tag @stop ends the metadata.
MetaStop ==
    /\ pc = "meta"
    /\ \E r \in getline :
        /\ r.ok
        /\ r.scan.metaKind = "stop"
        /\ input' = r.stream
        /\ line' = r.scan.noComment
    /\ logOs' = Append(logOs, Event(0, "done parsing meta (reached tag @stop)", ""))
    /\ pc' = "metaEnd"
    /\ UNCHANGED <<corpus, outcome, output, metaVars, parseVars, ipsVars>>

\* The metadata after a tag line: @title, @program and @url set their value.
TaggedMeta(meta, curTag, value) ==
    CASE curTag = "@title"   -> [meta EXCEPT !.title = value]
      [] curTag = "@program" -> [meta EXCEPT !.programId = value]
      [] curTag = "@url"     -> [meta EXCEPT !.url = value]
      [] OTHER               -> meta

\* A line starting with '@'.
MetaTag ==
    /\ pc = "meta"
    /\ \E r \in getline :
        /\ r.ok
        /\ r.scan.metaKind = "tag"
        /\ input' = r.stream
        /\ line' = r.scan.noComment
        /\ metaResult' = TaggedMeta(metaResult, r.scan.curTag, r.scan.metaValue)
        /\ logOs' =
             IF r.scan.curTag \in {"@title", "@program", "@url"}
             THEN Append(logOs, Event(metaLineNum, "meta",
                                      r.scan.curTag \o "=" \o r.scan.metaValue))
             ELSE logOs
    /\ metaLineNum' = metaLineNum + 1
    /\ UNCHANGED <<corpus, pc, outcome, output, legacyTitle, parseVars, ipsVars>>

\* A line starting with '#' that leaves a legacy title already found as it is:
\* what MetaEcho must not be.
MetaEchoKeepingFirst ==
    /\ pc = "meta"
    /\ \E r \in getline :
        /\ r.ok
        /\ r.scan.metaKind = "echo"
        /\ input' = r.stream
        /\ line' = r.scan.noComment
        /\ logOs' = Append(logOs, Event(metaLineNum, "echo", r.scan.noComment))
        /\ legacyTitle' = IF legacyTitle = ""
                          THEN ltrim(SubstrFrom(r.scan.noComment, 1))
                          ELSE legacyTitle
    /\ metaLineNum' = metaLineNum + 1
    /\ UNCHANGED <<corpus, pc, outcome, output, metaResult, parseVars, ipsVars>>

\* A line starting with '#': it is echoed and becomes the legacy title.
MetaEcho ==
    /\ pc = "meta"
    /\ \E r \in getline :
        /\ r.ok
        /\ r.scan.metaKind = "echo"
        /\ input' = r.stream
        /\ line' = r.scan.noComment
        /\ logOs' = Append(logOs, Event(metaLineNum, "echo", r.scan.noComment))
        /\ legacyTitle' = ltrim(SubstrFrom(r.scan.noComment, 1))
    /\ metaLineNum' = metaLineNum + 1
    /\ UNCHANGED <<corpus, pc, outcome, output, metaResult, parseVars, ipsVars>>

\* Any other line of the metadata block is passed over.
MetaOther ==
    /\ pc = "meta"
    /\ \E r \in getline :
        /\ r.ok
        /\ r.scan.metaKind = "other"
        /\ input' = r.stream
        /\ line' = r.scan.noComment
    /\ metaLineNum' = metaLineNum + 1
    /\ UNCHANGED <<corpus, logOs, pc, outcome, output, metaResult, legacyTitle,
                   parseVars, ipsVars>>

\* The stream parsePchtxt reads after the metadata: input.seekg(curPos), with
\* curPos the position input.tellg() gave before getPchtxtMeta ran.
StreamAfterMeta == seekg(input)

\* The metadata getPchtxtMeta returns: the title falls back on the legacy title.
ReturnedMeta(meta, legacy) ==
    IF meta.title = "" THEN [meta EXCEPT !.title = legacy] ELSE meta

\* getPchtxtMeta returns, and parsePchtxt stores the metadata, seeks back and
\* sets up its parsing status.
MetaReturn ==
    /\ pc = "metaEnd"
    /\ metaResult' = ReturnedMeta(metaResult, legacyTitle)
    /\ result' = [result EXCEPT !.meta = ReturnedMeta(metaResult, legacyTitle)]
    /\ logOs' = IF metaResult.title = ""
                THEN Append(logOs, Event(0, "using legacy style title", legacyTitle))
                ELSE logOs
    /\ input' = StreamAfterMeta
    /\ line' = ""
    /\ pc' = "parse"
    /\ UNCHANGED <<corpus, outcome, output, legacyTitle, metaLineNum, curLineNum,
                   lastCommentLine, curPatch, curPatchCollection, curOffsetShift,
                   curIsBigEndian, isAcceptingPatch, stopParsing, logDebugInfo,
                   ipsVars>>

(***************************************************************************)
(* parsePchtxt: the main loop                                              *)
(***************************************************************************)

\* push_back without the test on contents.empty(): what PushPatch must not be.
PushPatchUnchecked(collection, patch) ==
    [collection EXCEPT !.patches = Append(@, patch)]

\* curPatchCollection.patches.push_back(curPatch) when the patch has contents
PushPatch(collection, patch) ==
    IF patch.contents # <<>>
    THEN [collection EXCEPT !.patches = Append(@, patch)]
    ELSE collection

\* The "patch read" message that goes with PushPatch
PatchReadLog(log, patch) ==
    IF patch.contents # <<>>
    THEN Append(log, Event(curLineNum, "patch read", patch.name))
    ELSE log

\* DebugLog as it would be if the message were written whatever logDebugInfo is.
DebugLogAlways(log, ev, text) == Append(log, Event(curLineNum, ev, text))

\* A message written only when logDebugInfo is set
DebugLog(log, ev, text) ==
    IF logDebugInfo THEN Append(log, Event(curLineNum, ev, text)) ELSE log

\* A line has been read and handled: the loop goes on with the next one.
Advance(r) ==
    /\ input' = r.stream
    /\ line' = r.scan.line
    /\ curLineNum' = curLineNum + 1
    /\ UNCHANGED <<corpus, pc, outcome, output, metaVars, ipsVars>>

\* Abort as it would be if it returned what had been parsed so far.
AbortWithResult(r, ev, text) ==
    /\ input' = r.stream
    /\ line' = r.scan.line
    /\ logOs' = Append(logOs, Event(curLineNum, ev, text))
    /\ pc' = "done"
    /\ outcome' = "aborted"
    /\ output' = result
    /\ UNCHANGED <<corpus, metaVars, parseVars, ipsVars>>

\* return {} after an error message: the caller gets an empty PatchTextOutput.
Abort(r, ev, text) ==
    /\ input' = r.stream
    /\ line' = r.scan.line
    /\ logOs' = Append(logOs, Event(curLineNum, ev, text))
    /\ pc' = "done"
    /\ outcome' = "aborted"
    /\ output' = NewPatchTextOutput
    /\ UNCHANGED <<corpus, metaVars, parseVars, ipsVars>>

\* A line of the given kind is read at the top of the loop.
Reads(r, kind) ==
    /\ pc = "parse"
    /\ ~stopParsing
    /\ r.ok
    /\ r.scan.kind = kind

\* if (stopParsing) break;
LoopStop ==
    /\ pc = "parse"
    /\ stopParsing
    /\ pc' = "seal"
    /\ UNCHANGED <<corpus, input, logOs, outcome, output, line, metaVars,
                   parseVars, ipsVars>>

\* std::getline fails: the loop ends.
ParseEof ==
    /\ pc = "parse"
    /\ ~stopParsing
    /\ \E r \in getline :
        /\ ~r.ok
        /\ input' = r.stream
        /\ line' = r.str
    /\ logOs' = Append(logOs, Event(0, "done parsing patches", ""))
    /\ pc' = "seal"
    /\ UNCHANGED <<corpus, outcome, output, metaVars, parseVars, ipsVars>>

\* @stop
TagStop ==
    \E r \in getline :
        /\ Reads(r, "stop")
        /\ Advance(r)
        /\ logOs' = Append(logOs, Event(curLineNum,
                                        "done parsing patches (reached tag @stop)", ""))
        /\ stopParsing' = TRUE
        /\ UNCHANGED <<result, lastCommentLine, curPatch, curPatchCollection,
                       curOffsetShift, curIsBigEndian, isAcceptingPatch,
                       logDebugInfo>>

\* HasBuildId as it would be if the build id were never looked at.
HasBuildIdUnchecked(collection) == TRUE

\* Whether @enabled, @disabled and a cheat header go on: the current collection
\* must have a build id.
HasBuildId(collection) == collection.buildId # ""

\* The comment before the last '[', or all of it when there is none.
NameBefore(comment, authorStartPos) ==
    rtrim(IF authorStartPos = Npos THEN comment
          ELSE Substr(comment, 0, authorStartPos))

\* The name a patch gets from the last comment line.
CommentName(comment) == NameBefore(comment, RFind(comment, "["))

\* substr(authorStartPos + 1, authorEndPos - authorStartPos - 1): in size_t
\* arithmetic the count is huge, and the rest of the string is taken, when there
\* is no ']' (npos) or the last ']' is before the last '['.
AuthorBetween(comment, authorStartPos, authorEndPos) ==
    IF authorStartPos = Npos THEN ""
    ELSE trim(IF authorEndPos = Npos \/ authorEndPos < authorStartPos
              THEN SubstrFrom(comment, authorStartPos + 1)
              ELSE Substr(comment, authorStartPos + 1,
                          authorEndPos - authorStartPos - 1))

\* The author a patch gets from the last comment line.
CommentAuthor(comment) ==
    AuthorBetween(comment, RFind(comment, "["), RFind(comment, "]"))

\* Named as it would be if the first '[' of the comment were looked for.
NamedFromFirstBracket(patch) ==
    IF patch.type # "AMS"
    THEN [patch EXCEPT
            !.name = NameBefore(lastCommentLine,
                        FirstOr({i \in 0..(Len(lastCommentLine) - 1) :
                                    At(lastCommentLine, i + 1) = "["}, Npos)),
            !.author = AuthorBetween(lastCommentLine,
                        FirstOr({i \in 0..(Len(lastCommentLine) - 1) :
                                    At(lastCommentLine, i + 1) = "["}, Npos),
                        RFind(lastCommentLine, "]"))]
    ELSE patch

\* The name and author are taken from the last comment line unless the patch
\* is of type AMS.
Named(patch) ==
    IF patch.type # "AMS"
    THEN [patch EXCEPT !.name = CommentName(lastCommentLine),
                       !.author = CommentAuthor(lastCommentLine)]
    ELSE patch

\* The patch type given after the tag
Typed(patch, patchType) ==
    CASE patchType = "heap" -> [patch EXCEPT !.type = "HEAP"]
      [] patchType = "ams"  -> [patch EXCEPT !.type = "AMS"]
      [] OTHER              -> patch

\* The patch an @enabled or @disabled line starts, from the patch that is
\* current once a patch with contents has been stored.
StartedPatch(patch, curTag, lower) ==
    Typed(Named([patch EXCEPT !.enabled = (curTag = "@enabled"),
                              !.lineNum = curLineNum]),
          firstToken(ltrim(SubstrFrom(lower, Len(curTag)))))

\* The patch that is current once a patch with contents has been stored
KeptPatch(patch) == IF patch.contents # <<>> THEN NewPatch ELSE patch

\* StartPatch as it would be if every patch started without offset shift and
\* in little endian: what StartPatch must not be.
StartPatchResettingShift(r, next, ev, accepting) ==
    IF ~HasBuildId(curPatchCollection)
    THEN Abort(r, "ERROR", "missing build id, abort parsing")
    ELSE /\ Advance(r)
         /\ curPatchCollection' = PushPatch(curPatchCollection, curPatch)
         /\ curPatch' = next
         /\ logOs' = DebugLog(PatchReadLog(logOs, curPatch), ev, next.name)
         /\ isAcceptingPatch' = accepting
         /\ curOffsetShift' = U32Zero
         /\ curIsBigEndian' = FALSE
         /\ UNCHANGED <<result, lastCommentLine, stopParsing, logDebugInfo>>

\* The current patch is stored if it has contents, and next becomes current;
\* accepting is isAcceptingPatch afterwards.
StartPatch(r, next, ev, accepting) ==
    IF ~HasBuildId(curPatchCollection)
    THEN Abort(r, "ERROR", "missing build id, abort parsing")
    ELSE /\ Advance(r)
         /\ curPatchCollection' = PushPatch(curPatchCollection, curPatch)
         /\ curPatch' = next
         /\ logOs' = DebugLog(PatchReadLog(logOs, curPatch), ev, next.name)
         /\ isAcceptingPatch' = accepting
         /\ UNCHANGED <<result, lastCommentLine, curOffsetShift, curIsBigEndian,
                        stopParsing, logDebugInfo>>

\* @enabled, @disabled
TagEnabled ==
    \E r \in getline :
        /\ Reads(r, "enabled")
        /\ StartPatch(r, StartedPatch(KeptPatch(curPatch), r.scan.curTag, r.scan.lower),
                      "parsing patch", TRUE)

\* A @flag line of the given kind is read.
ReadsFlag(r, kind) ==
    /\ Reads(r, "flag")
    /\ r.scan.flagKind = kind

\* @flag be, @flag le
FlagEndian ==
    \E r \in getline :
        /\ ReadsFlag(r, "endian")
        /\ Advance(r)
        /\ curIsBigEndian' = (r.scan.flagType = "be")
        /\ UNCHANGED <<logOs, result, lastCommentLine, curPatch, curPatchCollection,
                       curOffsetShift, isAcceptingPatch, stopParsing, logDebugInfo>>

\* The position in the list of the first collection with the build id, 0 if none
\* (std::find_if over result.collections).
FindCollection(collections, buildId) ==
    FirstOr({i \in 1..Len(collections) : collections[i].buildId = buildId}, 0)

\* std::list::erase of the element at position i
Erase(seq, i) == SubSeq(seq, 1, i - 1) \o SubSeq(seq, i + 1, Len(seq))

\* The collection list and the current collection after the current collection,
\* the last patch already pushed, is wrapped up: it is stored and replaced by a
\* fresh one only when it has patches.
WrapUp(collections, collection) ==
    IF collection.patches # <<>>
    THEN [collections |-> Append(collections, collection),
          collection  |-> NewPatchCollection]
    ELSE [collections |-> collections, collection |-> collection]

\* The stored collection at position existing is taken out of the list and made
\* current; without one (0) the current collection gets the build id and type.
Opened(wrapped, existing, flagType, flagValue) ==
    IF existing # 0
    THEN [collections |-> Erase(wrapped.collections, existing),
          collection  |-> wrapped.collections[existing]]
    ELSE [collections |-> wrapped.collections,
          collection  |-> [wrapped.collection EXCEPT
                              !.buildId = flagValue,
                              !.targetType = IF flagType = "nrobid"
                                             THEN "NRO" ELSE "NSO"]]

\* The collection list and the current collection once the build id of a
\* @flag nsobid / nrobid line is looked up among the stored collections.
OpenBuildId(wrapped, flagType, flagValue) ==
    Opened(wrapped, FindCollection(wrapped.collections, flagValue),
           flagType, flagValue)

\* The messages of wrapping up the current collection: "patch read" for a last
\* patch with contents, then ev if the collection has patches.
WrapUpLog(ev) ==
    IF PushPatch(curPatchCollection, curPatch).patches # <<>>
    THEN DebugLog(PatchReadLog(logOs, curPatch), ev, curPatchCollection.buildId)
    ELSE PatchReadLog(logOs, curPatch)

\* The parsing status once the collection of a build id has been opened.
OpenCollection(opened) ==
    /\ curPatch' = NewPatch
    /\ result' = [result EXCEPT !.collections = opened.collections]
    /\ curPatchCollection' = opened.collection
    /\ logOs' = DebugLog(WrapUpLog("parsing stopped for"), "parsing started for",
                         opened.collection.buildId)

\* FlagBuildId as it would be if isAcceptingPatch were left as it is.
FlagBuildIdStillAccepting ==
    \E r \in getline :
        /\ ReadsFlag(r, "buildId")
        /\ Advance(r)
        /\ OpenCollection(OpenBuildId(WrapUp(result.collections,
                                             PushPatch(curPatchCollection, curPatch)),
                                      r.scan.flagType, r.scan.flagValue))
        /\ UNCHANGED <<lastCommentLine, curOffsetShift, curIsBigEndian,
                       isAcceptingPatch, stopParsing, logDebugInfo>>

\* @flag nsobid, @flag nrobid
FlagBuildId ==
    \E r \in getline :
        /\ ReadsFlag(r, "buildId")
        /\ Advance(r)
        /\ OpenCollection(OpenBuildId(WrapUp(result.collections,
                                             PushPatch(curPatchCollection, curPatch)),
                                      r.scan.flagType, r.scan.flagValue))
        /\ isAcceptingPatch' = FALSE
        /\ UNCHANGED <<lastCommentLine, curOffsetShift, curIsBigEndian,
                       stopParsing, logDebugInfo>>

\* curOffsetShift = std::stoi(flagValue, nullptr, 0): std::stoi may throw, and
\* nothing in parsePchtxt catches.
SetOffsetShift(r, shift) ==
    IF shift.threw
    THEN /\ input' = r.stream
         /\ line' = r.scan.line
         /\ pc' = "done"
         /\ outcome' = "threw"
         /\ UNCHANGED <<corpus, logOs, output, metaVars, parseVars, ipsVars>>
    ELSE /\ Advance(r)
         /\ curOffsetShift' = shift.val
         /\ logOs' = DebugLog(logOs, "offset shift is now", "")
         /\ UNCHANGED <<result, lastCommentLine, curPatch, curPatchCollection,
                        curIsBigEndian, isAcceptingPatch, stopParsing, logDebugInfo>>

\* @flag offset_shift
FlagOffsetShift ==
    \E r \in getline :
        /\ ReadsFlag(r, "offsetShift")
        /\ SetOffsetShift(r, stoi0(r.scan.flagValue))

\* @flag debug_info, @flag print_values
FlagDebugInfo ==
    \E r \in getline :
        /\ ReadsFlag(r, "debugInfo")
        /\ Advance(r)
        /\ logDebugInfo' = TRUE
        /\ logOs' = Append(logOs, Event(curLineNum, "additional debug info enabled", ""))
        /\ UNCHANGED <<result, lastCommentLine, curPatch, curPatchCollection,
                       curOffsetShift, curIsBigEndian, isAcceptingPatch, stopParsing>>

\* @flag with any other flag type
FlagUnknown ==
    \E r \in getline :
        /\ ReadsFlag(r, "unknown")
        /\ Advance(r)
        /\ logOs' = Append(logOs, Event(curLineNum,
                                        "WARNING ignored unrecognized flag type",
                                        r.scan.flagType))
        /\ UNCHANGED parseVarsButLine

\* Legacy @nsobid: the value starts after the tag and one more character.
LegacyBuildId(noComment) == ltrim(SubstrFrom(noComment, Len("@nsobid") + 1))

\* The collection a legacy @nsobid line leaves current.
LegacyCollection(collection, noComment) ==
    [collection EXCEPT !.targetType = "NSO",
                       !.buildId = LegacyBuildId(noComment)]

\* @nsobid <build id> (legacy)
TagLegacyNsobid ==
    \E r \in getline :
        /\ Reads(r, "legacy")
        /\ IF ~(Len(r.scan.lower) > Len("@nsobid") + 1)
           THEN Abort(r, "ERROR", "legacy nsobid tag missing value")
           ELSE /\ Advance(r)
                /\ curPatchCollection' =
                        LegacyCollection(curPatchCollection, r.scan.noComment)
                /\ logOs' = DebugLog(logOs, "parsing started for (legacy style bid)",
                                     LegacyBuildId(r.scan.noComment))
                /\ UNCHANGED <<result, lastCommentLine, curPatch, curOffsetShift,
                               curIsBigEndian, isAcceptingPatch, stopParsing,
                               logDebugInfo>>

\* A tag that is none of the above and no metadata tag: a warning.
TagUnrecognized ==
    \E r \in getline :
        /\ Reads(r, "badtag")
        /\ Advance(r)
        /\ logOs' = Append(logOs,
                Event(curLineNum, "WARNING ignored unrecognized tag", r.scan.curTag))
        /\ UNCHANGED parseVarsButLine

\* A metadata tag (@title, @program, @url): nothing to do in the main loop.
TagMeta ==
    \E r \in getline :
        /\ Reads(r, "metatag")
        /\ Advance(r)
        /\ UNCHANGED <<logOs, parseVarsButLine>>

\* EchoLine as it would be if the case fell through to the case of a comment.
EchoLineFallingThrough ==
    \E r \in getline :
        /\ Reads(r, "echo")
        /\ Advance(r)
        /\ logOs' = Append(logOs, Event(curLineNum, "echo", r.scan.line))
        /\ lastCommentLine' = getLineCommentContent(r.scan.line)
        /\ UNCHANGED <<result, curPatch, curPatchCollection, curOffsetShift,
                       curIsBigEndian, isAcceptingPatch, stopParsing, logDebugInfo>>

\* '#': the line is echoed.
EchoLine ==
    \E r \in getline :
        /\ Reads(r, "echo")
        /\ Advance(r)
        /\ logOs' = Append(logOs, Event(curLineNum, "echo", r.scan.line))
        /\ UNCHANGED parseVarsButLine

\* substr(1, rfind("]") - 1): without a ']' (npos) the count is huge in size_t
\* arithmetic and the rest of the string is taken.
CheatName(noComment, close) ==
    trim(IF close = Npos THEN SubstrFrom(noComment, 1)
         ELSE Substr(noComment, 1, close - 1))

\* The patch a cheat header starts.
CheatPatch(noComment) ==
    [name |-> CheatName(noComment, RFind(noComment, "]")), author |-> "",
     type |-> "AMS", enabled |-> TRUE, lineNum |-> curLineNum, contents |-> <<>>]

\* '[': an AMS cheat header
AmsCheat ==
    \E r \in getline :
        /\ Reads(r, "cheat")
        /\ StartPatch(r, CheatPatch(r.scan.noComment), "parsing AMS cheat",
                      isAcceptingPatch)

\* '/': a comment line is remembered.
CommentLine ==
    \E r \in getline :
        /\ Reads(r, "comment")
        /\ Advance(r)
        /\ lastCommentLine' = getLineCommentContent(r.scan.line)
        /\ UNCHANGED <<logOs, result, curPatch, curPatchCollection, curOffsetShift,
                       curIsBigEndian, isAcceptingPatch, stopParsing, logDebugInfo>>

(***************************************************************************)
(* parsePchtxt: patch contents (the default case of the switch)            *)
(***************************************************************************)

\* What the default case does with a line, given the parsing status:
\* "skip" (not accepting, or an empty line), "ams" (plain text of a cheat),
\* "invalid" (the offset is not hex: the line is ignored), "range" (offset out
\* of range), "string" or "hex" (the value is a string, or hex tokens).
ContentKind(scan) ==
    IF ~isAcceptingPatch \/ scan.line = "" THEN "skip"
    ELSE IF curPatch.type = "AMS" THEN "ams"
    ELSE IF ~stringIsHex(scan.curTag) THEN "invalid"
    ELSE IF Len(trimZeros(scan.curTag)) > 8 THEN "range"
    ELSE IF FirstChar(scan.valueStr) = "\"" THEN "string"
    ELSE "hex"

ReadsContent(r, kind) ==
    /\ Reads(r, "content")
    /\ ContentKind(r.scan) = kind

\* ContentOffset as it would be if the offset shift were left out.
ContentOffsetUnshifted(offsetStr, shift) == stoul16(trimZeros(offsetStr))

\* static_cast<uint32_t>(std::stoul(offsetStr, nullptr, 16)) + curOffsetShift
ContentOffset(offsetStr, shift) == U32Add(stoul16(trimZeros(offsetStr)), shift)

\* The loop that finds the closing quote: the 1-based position of the first '"'
\* at or after from that has no backslash right before it, 0 when there is none.
RECURSIVE ClosingPos(_, _)
\* The '"' found at pos (0: none) closes the string unless a backslash precedes it.
ClosingAt(valueStr, pos) ==
    IF pos = 0 THEN 0
    ELSE IF At(valueStr, pos - 1) # "\\" THEN pos
    ELSE ClosingPos(valueStr, pos + 1)

ClosingPos(valueStr, from) ==
    ClosingAt(valueStr,
              FirstOr({i \in from..Len(valueStr) : At(valueStr, i) = "\""}, 0))

\* The value of a string patch: the escaped text between the quotes and '\0'.
StringValue(valueStr) ==
    escapeString(SubSeq(valueStr, 2, ClosingPos(valueStr, 2) - 1)) \o <<0>>

\* TokenBytes as it would be if big-endian tokens were read forwards too.
TokenBytesForward(valueTokenStr, bigEndian) ==
    [i \in 1..(Len(valueTokenStr) \div 2) |-> getHexByte(valueTokenStr, 2 * i - 1)]

\* The bytes of one hex token: from its end backwards for big endian
TokenBytes(valueTokenStr, bigEndian) ==
    IF bigEndian
    THEN [i \in 1..(Len(valueTokenStr) \div 2) |->
            getHexByte(valueTokenStr, Len(valueTokenStr) - 2 * i + 1)]
    ELSE [i \in 1..(Len(valueTokenStr) \div 2) |->
            getHexByte(valueTokenStr, 2 * i - 1)]

\* The loop over the value tokens: [bad, value], bad being "" or the message of
\* the error that ends it, value the bytes pushed so far.
RECURSIVE HexValue(_, _, _)
\* One turn of the loop, on the token it takes from valueStr.
HexToken(valueStr, valueTokenStr, bigEndian, value) ==
    IF valueTokenStr = "" THEN [bad |-> "", value |-> value]
    ELSE IF Len(valueTokenStr) % 2 # 0
    THEN [bad |-> "bad length for hex values", value |-> value]
    ELSE IF ~stringIsHex(valueTokenStr)
    THEN [bad |-> "not valid hex values", value |-> value]
    ELSE HexValue(ltrim(SubstrFrom(valueStr, Len(valueTokenStr))), bigEndian,
                  value \o TokenBytes(valueTokenStr, bigEndian))

HexValue(valueStr, bigEndian, value) ==
    HexToken(valueStr, firstToken(valueStr), bigEndian, value)

\* curPatch.contents.push_back(patchContent)
PushContent(patch, content) == [patch EXCEPT !.contents = Append(@, content)]

\* A patch content is added to the current patch.
StoreContent(r, patchContent) ==
    /\ Advance(r)
    /\ curPatch' = PushContent(curPatch, patchContent)
    /\ logOs' = DebugLog(logOs, "offset value len", "")
    /\ UNCHANGED <<result, lastCommentLine, curPatchCollection, curOffsetShift,
                   curIsBigEndian, isAcceptingPatch, stopParsing, logDebugInfo>>

\* A line is passed over: contents are not accepted, or the line is empty.
ContentSkip ==
    \E r \in getline :
        /\ ReadsContent(r, "skip")
        /\ Advance(r)
        /\ UNCHANGED <<logOs, parseVarsButLine>>

\* A line of an AMS cheat is added as plain text.
ContentAms ==
    \E r \in getline :
        /\ ReadsContent(r, "ams")
        /\ Advance(r)
        /\ curPatch' = PushContent(curPatch,
                PatchContent(U32Zero, Bytes(r.scan.noComment)))
        /\ logOs' = DebugLog(logOs, "AMS cheat", r.scan.noComment)
        /\ UNCHANGED <<result, lastCommentLine, curPatchCollection, curOffsetShift,
                       curIsBigEndian, isAcceptingPatch, stopParsing, logDebugInfo>>

\* The first token is not hex: the line is ignored.
ContentInvalidOffset ==
    \E r \in getline :
        /\ ReadsContent(r, "invalid")
        /\ Advance(r)
        /\ logOs' = DebugLog(logOs, "line ignored: invalid offset", r.scan.line)
        /\ UNCHANGED parseVarsButLine

\* The offset has more than 8 digits: an error.
ContentOffsetRange ==
    \E r \in getline :
        /\ ReadsContent(r, "range")
        /\ Abort(r, "ERROR", "offset out of range")

\* offset "string"
ContentString ==
    \E r \in getline :
        /\ ReadsContent(r, "string")
        /\ IF ClosingPos(r.scan.valueStr, 2) = 0
           THEN Abort(r, "ERROR", "cannot find string closing")
           ELSE StoreContent(r, PatchContent(ContentOffset(r.scan.curTag, curOffsetShift),
                                             StringValue(r.scan.valueStr)))

\* The hex values of a line have been read: an error, or a patch content.
StoreHex(r, parsed) ==
    IF parsed.bad # ""
    THEN Abort(r, "ERROR", parsed.bad)
    ELSE StoreContent(r, PatchContent(ContentOffset(r.scan.curTag, curOffsetShift),
                                      parsed.value))

\* offset hex-values
ContentHex ==
    \E r \in getline :
        /\ ReadsContent(r, "hex")
        /\ StoreHex(r, HexValue(r.scan.valueStr, curIsBigEndian, <<>>))

\* The collections returned: the last patch goes into the current collection if
\* it has contents, the current collection into the list if it has patches.
FinalCollections(collections, collection, patch) ==
    IF PushPatch(collection, patch).patches # <<>>
    THEN Append(collections, PushPatch(collection, patch))
    ELSE collections

\* After the loop: add the last patch and collection, return result.
AddLast ==
    /\ pc = "seal"
    /\ curPatchCollection' = PushPatch(curPatchCollection, curPatch)
    /\ result' = [result EXCEPT !.collections =
                    FinalCollections(result.collections, curPatchCollection, curPatch)]
    /\ logOs' = WrapUpLog("parsing completed for")
    /\ output' = result'
    /\ outcome' = "returned"
    /\ pc' = "done"
    /\ UNCHANGED <<corpus, input, line, metaVars, curLineNum, lastCommentLine,
                   curPatch, curOffsetShift, curIsBigEndian, isAcceptingPatch,
                   stopParsing, logDebugInfo, ipsVars>>

(***************************************************************************)
(* The parser's specification                                              *)
(***************************************************************************)

Next ==
    \/ MetaEof \/ MetaBlank \/ MetaStop \/ MetaTag \/ MetaEcho \/ MetaOther
    \/ MetaReturn
    \/ LoopStop \/ ParseEof
    \/ TagStop \/ TagEnabled
    \/ FlagEndian \/ FlagBuildId \/ FlagOffsetShift \/ FlagDebugInfo \/ FlagUnknown
    \/ TagLegacyNsobid \/ TagUnrecognized \/ TagMeta
    \/ EchoLine \/ AmsCheat \/ CommentLine
    \/ ContentSkip \/ ContentAms \/ ContentInvalidOffset \/ ContentOffsetRange
    \/ ContentString \/ ContentHex
    \/ AddLast

Spec == Init /\ [][Next]_vars

(***************************************************************************)
(* writeIps                                                                *)
(***************************************************************************)

IPS32_HEADER_MAGIC == Bytes("IPS32")

IPS32_FOOTER_MAGIC == Bytes("EEOF")

\* WriteContent as it would be if the offset were written as it lies in the
\* memory of a little-endian machine.
WriteContentNative(patchContent) ==
    <<patchContent.offset[2] % 256, patchContent.offset[2] \div 256,
      patchContent.offset[1] % 256, patchContent.offset[1] \div 256>>
        \o <<(Len(patchContent.value) \div 256) % 256, Len(patchContent.value) % 256>>
        \o patchContent.value

\* What the innermost loop body writes for one patch content: the offset from
\* its most significant byte, two bytes of value.size(), the value.
WriteContent(patchContent) ==
    U32BytesBE(patchContent.offset)
        \o <<(Len(patchContent.value) \div 256) % 256, Len(patchContent.value) % 256>>
        \o patchContent.value

\* for (auto& patchContent : patch.contents), the bytes written after out
RECURSIVE WriteContents(_, _)
WriteContents(contents, out) ==
    IF contents = <<>> THEN out
    ELSE WriteContents(Tail(contents), out \o WriteContent(Head(contents)))

\* WritePatches as it would be if only the disabled patches were left out.
RECURSIVE WritePatchesOfAnyType(_, _)
WritePatchesOfAnyType(patches, out) ==
    IF patches = <<>> THEN out
    ELSE WritePatchesOfAnyType(Tail(patches),
                               IF Head(patches).enabled = FALSE
                               THEN out
                               ELSE WriteContents(Head(patches).contents, out))

\* for (auto& patch : patchCollection.patches), the bytes written after out
RECURSIVE WritePatches(_, _)
WritePatches(patches, out) ==
    IF patches = <<>> THEN out
    ELSE WritePatches(Tail(patches),
                      IF Head(patches).type # "BIN" \/ Head(patches).enabled = FALSE
                      THEN out
                      ELSE WriteContents(Head(patches).contents, out))

\* writeIps as it would be if the footer were left out.
writeIpsNoFooter(patchCollection) ==
    WritePatches(patchCollection.patches, IPS32_HEADER_MAGIC)

\* Everything writeIps writes to ostream
writeIps(patchCollection) ==
    WritePatches(patchCollection.patches, IPS32_HEADER_MAGIC) \o IPS32_FOOTER_MAGIC

\* writeIps(patchCollection, ostream) on an empty ostream
WriteIps ==
    /\ ~ipsDone
    /\ ipsOut' = ipsOut \o writeIps(ipsIn)
    /\ ipsDone' = TRUE
    /\ UNCHANGED <<ipsIn, streamVars, metaVars, parseVars>>

\* The most patches in the collections given to writeIps.
MaxIpsPatches == 2

\* The size of a value that does not fit the record's two size bytes.
BigValueSize == 65538

\* The contents the patches given to writeIps are made of.
IpsContents ==
    { <<>>,
      <<PatchContent(<<0, 256>>, <<222, 173>>)>>,
      <<PatchContent(<<4660, 22136>>, <<1>>),
        PatchContent(<<65535, 65535>>, [i \in 1..300 |-> i % 256])>> }

IpsPatches ==
    { [name |-> "p", author |-> "", type |-> t, enabled |-> e, lineNum |-> 1,
       contents |-> c] : t \in {"BIN", "HEAP", "AMS"}, e \in BOOLEAN, c \in IpsContents }

\* A patch with one value of BigValueSize bytes
BigPatch ==
    [name |-> "big", author |-> "", type |-> "BIN", enabled |-> TRUE, lineNum |-> 1,
     contents |-> <<PatchContent(<<0, 16>>, [i \in 1..BigValueSize |-> i % 256])>>]

\* The collections given to writeIps.
IpsCollections ==
    { [buildId |-> "AB", targetType |-> "NSO", patches |-> ps] :
        ps \in UNION {[1..n -> IpsPatches] : n \in 0..MaxIpsPatches}
                 \cup {<<BigPatch>>} \cup {<<p, BigPatch>> : p \in IpsPatches} }

\* writeIps is called on a collection; the parser stays as constructed.
InitIps ==
    /\ corpus = [name |-> "none", metaDepth |-> 0, meta |-> {}, body |-> {}, depth |-> 0]
    /\ ParseInit
    /\ ipsIn \in IpsCollections
    /\ ipsOut = <<>>
    /\ ipsDone = FALSE

NextIps == WriteIps

SpecIps == InitIps /\ [][NextIps]_vars


(***************************************************************************)
(* Properties                                                              *)
(***************************************************************************)

\* C1: when parsePchtxt returns without aborting, every returned collection has
\* a non-empty buildId and at least one patch, and every patch in it has at
\* least one content entry.
C1_Sealed ==
    outcome = "returned" =>
        \A i \in 1..Len(output.collections) :
            /\ output.collections[i].buildId # ""
            /\ output.collections[i].patches # <<>>
            /\ \A j \in 1..Len(output.collections[i].patches) :
                   output.collections[i].patches[j].contents # <<>>

\* A parse that returned two collections after it had read an @enabled line
\* that no content line followed.
C1_SealedWitness ==
    /\ outcome = "returned"
    /\ Len(output.collections) = 2
    /\ \E k \in 1..(Len(input.lines) - 1) :
            input.lines[k] = "@enabled" /\ input.lines[k + 1] # "0100 DEAD"

\* The build id a line announces, "" when the line announces none: the value of
\* a @flag nsobid line or of a legacy @nsobid line.
C2_BuildIdOf(str) ==
    IF isStartsWith(str, "@flag nsobid ") THEN SubstrFrom(str, Len("@flag nsobid "))
    ELSE IF isStartsWith(str, "@nsobid ") THEN SubstrFrom(str, Len("@nsobid "))
    ELSE ""

\* The build id whose block line k of the input is in, "" before the first one.
RECURSIVE C2_Owner(_, _)
C2_Owner(lines, k) ==
    IF k = 0 THEN ""
    ELSE IF C2_BuildIdOf(lines[k]) # "" THEN C2_BuildIdOf(lines[k])
    ELSE C2_Owner(lines, k - 1)

\* @flag nsobid X appears twice, with a line for another build id in between.
C2_Twice(lines, X) ==
    \E i, m, j \in 1..Len(lines) :
        /\ i < m /\ m < j
        /\ lines[i] = "@flag nsobid " \o X
        /\ lines[j] = "@flag nsobid " \o X
        /\ C2_BuildIdOf(lines[m]) \notin {"", X}

\* C2: when @flag nsobid X appears twice in the input, separated by blocks for
\* other build ids, the returned output has one collection with buildId X at
\* most, that collection holds exactly the returned patches that were started in
\* the blocks of X (build ids compared with their letter case), in source order,
\* and a patch started in a block of X and followed at once by a content line
\* is returned.
C2_Merged ==
    outcome = "returned" =>
        \A X \in {"AB", "ab"} :
            C2_Twice(input.lines, X) =>
                /\ Cardinality({c \in 1..Len(output.collections) :
                                   output.collections[c].buildId = X}) <= 1
                /\ \A c \in 1..Len(output.collections) :
                     \A p \in 1..Len(output.collections[c].patches) :
                        /\ (C2_Owner(input.lines, output.collections[c].patches[p].lineNum) = X)
                              <=> (output.collections[c].buildId = X)
                        /\ \A q \in 1..Len(output.collections[c].patches) :
                              p < q => output.collections[c].patches[p].lineNum
                                         < output.collections[c].patches[q].lineNum
                /\ \A k \in 1..(Len(input.lines) - 1) :
                        /\ input.lines[k] = "@enabled"
                        /\ input.lines[k + 1] = "0100 DEAD"
                        /\ C2_Owner(input.lines, k) = X
                        => \E c \in 1..Len(output.collections) :
                             /\ output.collections[c].buildId = X
                             /\ \E p \in 1..Len(output.collections[c].patches) :
                                    output.collections[c].patches[p].lineNum = k

\* A line has been read by the main loop in this step; line' is that line.
MainLoopRead == pc = "parse" /\ input'.pos = input.pos + 1

\* A line that starts a patch or a cheat: @enabled, @disabled, or a line
\* starting with '['.
C3_Directive(str) ==
    \/ FirstChar(str) = "["
    \/ firstToken(getStringToLowerCase(getLineNoComment(str)))
          \in {"@enabled", "@disabled"}

\* C3: an @enabled or @disabled line or a cheat header that the main loop reads
\* while the current collection has an empty buildId aborts the parse: one error
\* event is written and the returned output has no collections.
C3_MissingBuildId ==
    [][ ( /\ MainLoopRead
          /\ C3_Directive(line')
          /\ curPatchCollection.buildId = "" )
        => ( /\ outcome' = "aborted"
             /\ output'.collections = <<>>
             /\ logOs' = Append(logOs, Event(curLineNum, "ERROR",
                                             "missing build id, abort parsing")) ) ]_vars

\* A parse aborted on a cheat header met before any build id.
C3_MissingBuildIdWitness ==
    /\ outcome = "aborted"
    /\ line = "[cheat 1]"
    /\ curPatchCollection.buildId = ""
    /\ logOs[Len(logOs)].ev = "ERROR"

\* The messages of the fatal errors.
C4_Messages ==
    {"offset out of range", "cannot find string closing", "bad length for hex values",
     "not valid hex values", "legacy nsobid tag missing value",
     "missing build id, abort parsing"}

\* C4: a step that writes an error event for line k is the last step of the
\* parse (no step is taken once the parse has aborted, so that no line after k
\* is read), k lines have been read, and the returned output has no collections
\* and empty metadata; the error is one of the fatal errors.
C4_Fatal ==
    [][ /\ outcome # "aborted"
        /\ ( /\ Len(logOs') > Len(logOs)
             /\ logOs'[Len(logOs')].ev = "ERROR" )
           => ( /\ outcome' = "aborted"
                /\ pc' = "done"
                /\ output'.collections = <<>>
                /\ output'.meta = [title |-> "", programId |-> "", url |-> ""]
                /\ logOs'[Len(logOs')].ln = curLineNum
                /\ logOs'[Len(logOs')].text \in C4_Messages
                /\ input'.pos = curLineNum + 1 ) ]_vars

\* A parse aborted after a collection had been sealed.
C4_FatalWitness ==
    /\ outcome = "aborted"
    /\ result.collections # <<>>
    /\ output.collections = <<>>
    /\ logOs[Len(logOs)].ev = "ERROR"

\* C5: when parsePchtxt returns without having met @stop, its main loop has
\* read every line of the input, the first included, whatever ended the scan of
\* the metadata.
C5_Restart ==
    (outcome = "returned" /\ ~stopParsing) => curLineNum = Len(input.lines) + 1

\* The @flag offset_shift line in force at line k: the last one before it, 0 when
\* there is none.
C6_ShiftLine(lines, k) ==
    LastOr({i \in 1..(k - 1) : lines[i] \in {"@flag offset_shift 0x10",
                                           "@flag offset_shift -1"}}, 0)

\* What the offset of a content line must be under a shift: 0x00000000 and
\* 0xFFFFFFFF plus nothing, plus 0x10 and minus 1, modulo 2^32.
C6_Expected(content, shift) ==
    CASE content = "00000000 01" /\ shift = ""                        -> <<0, 0>>
      [] content = "00000000 01" /\ shift = "@flag offset_shift 0x10" -> <<0, 16>>
      [] content = "00000000 01" /\ shift = "@flag offset_shift -1"   -> <<65535, 65535>>
      [] content = "FFFFFFFF 02" /\ shift = ""                        -> <<65535, 65535>>
      [] content = "FFFFFFFF 02" /\ shift = "@flag offset_shift 0x10" -> <<0, 15>>
      [] content = "FFFFFFFF 02" /\ shift = "@flag offset_shift -1"   -> <<65535, 65534>>

\* C6: the offset stored for an accepted content line of a patch that is no
\* cheat is the value of its hex offset token plus the offset shift in force,
\* taken as a signed number, modulo 2^32.
C6_OffsetShift ==
    [][ ( /\ MainLoopRead
          /\ line' \in {"00000000 01", "FFFFFFFF 02"}
          /\ isAcceptingPatch
          /\ curPatch.type # "AMS" )
        => ( /\ Len(curPatch'.contents) = Len(curPatch.contents) + 1
             /\ curPatch'.contents[Len(curPatch'.contents)].offset =
                  C6_Expected(line',
                              IF C6_ShiftLine(input.lines, input.pos) = 0 THEN ""
                              ELSE input.lines[C6_ShiftLine(input.lines, input.pos)]) ) ]_vars

\* Offset 0xFFFFFFFF stored as 0x0000000F after a second shift, of 0x10.
C6_OffsetShiftWitness ==
    /\ line = "FFFFFFFF 02"
    /\ curPatch.contents # <<>>
    /\ curPatch.contents[Len(curPatch.contents)].offset = <<0, 15>>
    /\ \E i, j \in 1..Len(input.lines) :
            /\ i < j
            /\ input.lines[i] = "@flag offset_shift -1"
            /\ input.lines[j] = "@flag offset_shift 0x10"

\* The bytes a quoted string stands for, followed by 0x00.
C7_Expected(content) ==
    CASE content = "0 \"he said \\\"hi\\\"\"" ->
            <<104, 101, 32, 115, 97, 105, 100, 32, 34, 104, 105, 34, 0>>
      [] content = "0 \"Hi\""     -> <<72, 105, 0>>
      [] content = "0 \"a/b\\n\"" -> <<97, 47, 98, 10, 0>>
      [] content = "0 \"a\\\\\""  -> <<97, 92, 0>>
      [] content = "0 \"\""       -> <<0>>

\* C7: an accepted content line whose value is a terminated quoted string adds
\* one content entry whose value is the escape-decoded text between the quotes
\* followed by one 0x00 byte.
C7_String ==
    [][ ( /\ MainLoopRead
          /\ line' \in {"0 \"he said \\\"hi\\\"\"", "0 \"Hi\"", "0 \"a/b\\n\"",
                        "0 \"a\\\\\"", "0 \"\""}
          /\ isAcceptingPatch
          /\ curPatch.type # "AMS" )
        => ( /\ Len(curPatch'.contents) = Len(curPatch.contents) + 1
             /\ curPatch'.contents[Len(curPatch'.contents)].value = C7_Expected(line') ) ]_vars

\* Whether values are big endian at line k: the last @flag be or @flag LE line
\* before it is @flag be.
C8_BigEndian(lines, k) ==
    /\ \E i \in 1..(k - 1) : lines[i] \in {"@flag be", "@flag LE"}
    /\ lines[LastOr({i \in 1..(k - 1) : lines[i] \in {"@flag be", "@flag LE"}}, 1)]
          = "@flag be"

\* The bytes of the hex tokens of a content line in either byte order.
C8_Expected(content, bigEndian) ==
    CASE content = "10 0A0B" /\ ~bigEndian -> <<10, 11>>
      [] content = "10 0A0B" /\ bigEndian  -> <<11, 10>>
      [] content = "10 0a0b 01020304 // note" /\ ~bigEndian -> <<10, 11, 1, 2, 3, 4>>
      [] content = "10 0a0b 01020304 // note" /\ bigEndian  -> <<11, 10, 4, 3, 2, 1>>

\* Hex tokens of two, four and six digits.
C8_Tokens ==
    {a \o b \o c : a \in {"0A", "ff", "7e"}, b \in {"", "0B", "10"}, c \in {"", "C3"}}

\* A sequence in reverse.
C8_Reverse(seq) == [i \in 1..Len(seq) |-> seq[Len(seq) + 1 - i]]

\* The value of a hex digit, by its place among the digits.
C8_Digit(ch) ==
    (CHOOSE i \in 1..22 : At("0123456789abcdefABCDEF", i) = ch)
        - (IF ch \in {"A", "B", "C", "D", "E", "F"} THEN 7 ELSE 1)

\* Little endian gives the byte pairs of a token from left to right, big endian
\* the same bytes in reverse.
C8_TokenLaw ==
    \A t \in C8_Tokens :
        /\ TokenBytes(t, FALSE) =
              [i \in 1..(Len(t) \div 2) |->
                  16 * C8_Digit(At(t, 2 * i - 1)) + C8_Digit(At(t, 2 * i))]
        /\ TokenBytes(t, TRUE) = C8_Reverse(TokenBytes(t, FALSE))

\* C8: little-endian decoding of an even-length hex token gives its byte pairs
\* left to right, big-endian decoding the reverse sequence; the bytes of the
\* tokens of a line go into one content entry in token order, each token
\* reversed on its own under big endian.
C8_Endian ==
    [][ /\ C8_TokenLaw
        /\ ( /\ MainLoopRead
             /\ line' \in {"10 0A0B", "10 0a0b 01020304 // note"}
             /\ isAcceptingPatch
             /\ curPatch.type # "AMS" )
           => ( /\ Len(curPatch'.contents) = Len(curPatch.contents) + 1
                /\ curPatch'.contents[Len(curPatch'.contents)].value =
                     C8_Expected(line', C8_BigEndian(input.lines, input.pos)) ) ]_vars

\* A line of two tokens stored under big endian.
C8_EndianWitness ==
    /\ line = "10 0a0b 01020304 // note"
    /\ curIsBigEndian
    /\ curPatch.contents # <<>>
    /\ curPatch.contents[Len(curPatch.contents)].value = <<11, 10, 4, 3, 2, 1>>

\* The content entries writeIps has to write: those of the enabled patches of
\* type BIN, in the order of the collection.
RECURSIVE C9_Entries(_)
C9_Entries(patches) ==
    IF patches = <<>> THEN <<>>
    ELSE (IF Head(patches).type = "BIN" /\ Head(patches).enabled
          THEN Head(patches).contents ELSE <<>>) \o C9_Entries(Tail(patches))

\* The number of bytes before the record of entry n: the 5 bytes of the header
\* and, for each entry before it, 6 bytes and its value.
RECURSIVE C9_Before(_, _)
C9_Before(entries, n) ==
    IF n = 1 THEN 5
    ELSE C9_Before(entries, n - 1) + 6 + Len(entries[n - 1].value)

\* The record of entry n is at its place in out: 4 bytes of offset, most
\* significant first, 2 bytes of the value's size modulo 65536, the value.
C9_Record(out, entry, before) ==
    /\ out[before + 1] * 256 + out[before + 2] = entry.offset[1]
    /\ out[before + 3] * 256 + out[before + 4] = entry.offset[2]
    /\ out[before + 5] * 256 + out[before + 6] = Len(entry.value) % 65536
    /\ \A i \in 1..6 : out[before + i] \in 0..255
    /\ SubSeq(out, before + 7, before + 6 + Len(entry.value)) = entry.value

\* C9: what writeIps writes is the 5 bytes IPS32, then for each content entry of
\* each enabled patch of type BIN, in order, a record of the 4-byte big-endian
\* offset, the 2-byte big-endian value of the size of the value modulo 65536 and
\* the value, then the 4 bytes EEOF.
C9_Format ==
    ipsDone =>
        /\ Len(ipsOut) = C9_Before(C9_Entries(ipsIn.patches),
                                   Len(C9_Entries(ipsIn.patches)) + 1) + 4
        /\ SubSeq(ipsOut, 1, 5) = <<73, 80, 83, 51, 50>>
        /\ SubSeq(ipsOut, Len(ipsOut) - 3, Len(ipsOut)) = <<69, 69, 79, 70>>
        /\ \A n \in 1..Len(C9_Entries(ipsIn.patches)) :
              C9_Record(ipsOut, C9_Entries(ipsIn.patches)[n],
                        C9_Before(C9_Entries(ipsIn.patches), n))

\* Two records written, the second with a value of 300 bytes, for the second
\* patch of a collection whose first patch, a disabled one, is left out.
C9_FormatWitness ==
    /\ ipsDone
    /\ Len(ipsIn.patches) = 2
    /\ ~ipsIn.patches[1].enabled
    /\ ipsIn.patches[1].contents # <<>>
    /\ Len(C9_Entries(ipsIn.patches)) = 2
    /\ Len(ipsOut) = 5 + (6 + 1) + (6 + 300) + 4

\* A collection of one enabled patch of type BIN with the single content entry
\* offset 0x100, value DE AD.
C10_Given ==
    /\ Len(ipsIn.patches) = 1
    /\ ipsIn.patches[1].type = "BIN"
    /\ ipsIn.patches[1].enabled
    /\ ipsIn.patches[1].contents = <<[offset |-> <<0, 256>>, value |-> <<222, 173>>]>>

\* C10: for a collection of one enabled patch of type BIN with the single
\* content entry offset 0x100, value DE AD, writeIps writes IPS32, 00 00 01 00,
\* 00 02, DE AD, EEOF: 17 bytes.
C10_Example ==
    (ipsDone /\ C10_Given) =>
        /\ ipsOut = <<73, 80, 83, 51, 50, 0, 0, 1, 0, 0, 2, 222, 173, 69, 69, 79, 70>>
        /\ Len(ipsOut) = 17

\* writeIps has written the file of that collection.
C10_ExampleWitness == ipsDone /\ C10_Given

\* The same bytes, said to be 21 bytes.
C10_TwentyOneBytes ==
    (ipsDone /\ C10_Given) =>
        /\ ipsOut = <<73, 80, 83, 51, 50, 0, 0, 1, 0, 0, 2, 222, 173, 69, 69, 79, 70>>
        /\ Len(ipsOut) = 21

\* A patch writeIps has to write: an enabled patch of type BIN.
C11_Written(patch) == patch.type = "BIN" /\ patch.enabled

\* C11: in writeIps a patch that is disabled or of type HEAP or AMS adds no byte
\* to the output, whatever its contents: what is written for a collection is
\* what is written for the collection with those patches removed, and a
\* collection of such patches only gives the 9 bytes of IPS32 and EEOF.
C11_Skipped ==
    ipsDone =>
        /\ ipsOut = writeIps([ipsIn EXCEPT !.patches = SelectSeq(@, C11_Written)])
        /\ (\A i \in 1..Len(ipsIn.patches) : ~C11_Written(ipsIn.patches[i]))
              => ipsOut = <<73, 80, 83, 51, 50, 69, 69, 79, 70>>

\* writeIps has written a collection of an enabled HEAP patch with contents and
\* an enabled BIN patch with contents.
C11_SkippedWitness ==
    /\ ipsDone
    /\ Len(ipsIn.patches) = 2
    /\ ipsIn.patches[1].type = "HEAP" /\ ipsIn.patches[1].enabled
    /\ Len(ipsIn.patches[1].contents) = 2
    /\ C11_Written(ipsIn.patches[2])
    /\ Len(ipsIn.patches[2].contents) = 1
    /\ Len(ipsOut) = 5 + (6 + 2) + 4

\* A line with an unrecognized tag or an unrecognized flag name has been read.
C12_BadTagOrFlag == MainLoopRead /\ line' \in {"@what", "@flag what"}

\* A content line whose first token is not hex has been read while the content
\* of a patch that is no cheat is accepted.
C12_BadOffset ==
    /\ MainLoopRead
    /\ line' = "xyz 04"
    /\ isAcceptingPatch
    /\ curPatch.type # "AMS"

\* The step has appended one event to the diagnostic stream, for the line read.
C12_Logged ==
    /\ Len(logOs') = Len(logOs) + 1
    /\ SubSeq(logOs', 1, Len(logOs)) = logOs
    /\ logOs'[Len(logOs')].ln = curLineNum

C13_Frame ==
    [][ ( \/ MainLoopRead /\ line' \in {"# echo", "# legacy", "@what", "@flag what"}
          \/ C12_BadOffset )
        => ( /\ curPatch' = curPatch
             /\ curPatchCollection' = curPatchCollection
             /\ result' = result
             /\ curOffsetShift' = curOffsetShift
             /\ curIsBigEndian' = curIsBigEndian
             /\ isAcceptingPatch' = isAcceptingPatch
             /\ stopParsing' = stopParsing
             /\ lastCommentLine' = lastCommentLine
             /\ logDebugInfo' = logDebugInfo
             /\ outcome' = "running"
             /\ pc' = "parse"
             /\ curLineNum' = curLineNum + 1 ) ]_vars

\* An echo line has been read while a patch with contents is the current one.
C13_FrameWitness ==
    /\ line = "# echo"
    /\ outcome = "running"
    /\ isAcceptingPatch
    /\ curPatch.contents # <<>>
    /\ logOs # <<>>
    /\ logOs[Len(logOs)] = Event(curLineNum - 1, "echo", "# echo")

\* C14: parsePchtxt ends in one of two ways only: it returns what it has
\* parsed after the end of the input or @stop, or it returns the empty output
\* after the first error, which it has written to the diagnostic stream; no
\* line, a @flag offset_shift line with any value included, ends it otherwise.
C14_Outcomes ==
    /\ outcome \in {"running", "returned", "aborted"}
    /\ pc = "done" => outcome \in {"returned", "aborted"}
    /\ outcome = "aborted" =>
            /\ output = NewPatchTextOutput
            /\ logOs # <<>>
            /\ logOs[Len(logOs)].ev = "ERROR"

\* What a @flag nsobid line with the given build id makes of the sealed
\* collections and the current collection.
C15_AsFlag(buildId) ==
    OpenBuildId(WrapUp(result.collections, PushPatch(curPatchCollection, curPatch)),
                "nsobid", buildId)

\* C15: a legacy @nsobid line with a build id changes the parsing status as a
\* @flag nsobid line with that build id does: the pending patch with contents
\* is sealed into the current collection, the current collection with patches
\* is sealed under its old build id, a sealed collection of the new build id is
\* reopened or else a fresh NSO collection is started, and isAcceptingPatch
\* becomes false.
C15_LegacyAsFlag ==
    [][ (MainLoopRead /\ line' = "@nsobid CD")
        => ( /\ curPatch' = NewPatch
             /\ result'.collections = C15_AsFlag("CD").collections
             /\ curPatchCollection' = C15_AsFlag("CD").collection
             /\ isAcceptingPatch' = FALSE
             /\ outcome' = "running" ) ]_vars

\* C16: the patch an @enabled or @disabled line starts has type BIN when the
\* line names no patch type (or one that is neither heap nor ams), whatever the
\* type of the patch before it and whether that patch had contents or not.
C16_DefaultType ==
    [][ ( /\ MainLoopRead
          /\ line' = "@enabled"
          /\ outcome' = "running" )
        => ( /\ curPatch'.type = "BIN"
             /\ curPatch'.enabled
             /\ curPatch'.lineNum = curLineNum
             /\ curPatch'.contents = <<>>
             /\ isAcceptingPatch' ) ]_vars

\* The text between the quotes of a line made of the offset 0, a space and a
\* quoted string, as it is written in the line.
C17_Quoted(str) == SubSeq(str, Len("0 \"") + 1, Len(str) - 1)

\* C17: the bytes stored for a content line with a quoted string keep the letter
\* case of the characters written between the quotes: they are the escaped
\* text of the line as it is written, not of the lower-cased line.
C17_CaseKept ==
    [][ ( /\ MainLoopRead
          /\ line' \in {"0 \"Hi\"", "0 \"a/b\\n\""}
          /\ isAcceptingPatch
          /\ curPatch.type # "AMS" )
        => ( /\ Len(curPatch'.contents) = Len(curPatch.contents) + 1
             /\ curPatch'.contents[Len(curPatch'.contents)].value =
                    escapeString(C17_Quoted(line')) \o <<0>>
             /\ line' = "0 \"Hi\"" =>
                    curPatch'.contents[Len(curPatch'.contents)].value[1] = 72 ) ]_vars

\* The number of consecutive backslashes that end at position i of a string.
RECURSIVE C18_Backslashes(_, _)
C18_Backslashes(str, i) ==
    IF i >= 1 /\ At(str, i) = "\\" THEN 1 + C18_Backslashes(str, i - 1) ELSE 0

\* The position of the quote that ends a string opened at position 1: the
\* first quote after it with an even number of backslashes before it, 0 when
\* there is none.
C18_Closing(str) ==
    FirstOr({i \in 2..Len(str) : /\ At(str, i) = "\""
                                 /\ C18_Backslashes(str, i - 1) % 2 = 0}, 0)

\* The value of a line made of the offset 0, a space and a value.
C18_Value(str) == SubSeq(str, Len("0 ") + 1, Len(str))

\* C18: the string of a content line ends at the first quote after the opening
\* one that an even number of backslashes precedes; the parse aborts with an
\* error exactly when the line has no such quote, and otherwise one content
\* entry is added with the text up to that quote.
C18_ClosingQuote ==
    [][ ( /\ MainLoopRead
          /\ line' \in {"0 \"he said \\\"hi\\\"\"", "0 \"a/b\\n\"", "0 \"a\\\\\"",
                        "0 \"abc", "0 \"\""}
          /\ isAcceptingPatch
          /\ curPatch.type # "AMS" )
        => IF C18_Closing(C18_Value(line')) = 0
           THEN /\ outcome' = "aborted"
                /\ logOs'[Len(logOs')] =
                      Event(curLineNum, "ERROR", "cannot find string closing")
           ELSE /\ outcome' = "running"
                /\ Len(curPatch'.contents) = Len(curPatch.contents) + 1
                /\ curPatch'.contents[Len(curPatch'.contents)].value =
                      escapeString(SubSeq(C18_Value(line'), 2,
                                          C18_Closing(C18_Value(line')) - 1)) \o <<0>> ]_vars

\* The patches of a sequence of collections.
RECURSIVE C19_PatchesOf(_)
C19_PatchesOf(collections) ==
    IF collections = <<>> THEN {}
    ELSE {Head(collections).patches[i] : i \in 1..Len(Head(collections).patches)}
            \cup C19_PatchesOf(Tail(collections))

\* The patches of the parsing status that have contents: the current one, those
\* of the current collection and those of the sealed collections.
C19_Filled(patch, collection, collections) ==
    {p \in {patch} \cup C19_PatchesOf(<<collection>>) \cup C19_PatchesOf(collections) :
        p.contents # <<>>}

\* An @enabled or a @disabled line.
C19_Starts(str) ==
    firstToken(getStringToLowerCase(getLineNoComment(str))) \in {"@enabled", "@disabled"}

\* C19: a @flag nsobid or @flag nrobid line leaves isAcceptingPatch false, and
\* as long as it is false a line that is neither @enabled nor @disabled leaves
\* it false and adds no content to any patch: every patch with contents is one
\* that was there, with the contents it had.
C19_NotAccepting ==
    [][ /\ ( /\ MainLoopRead
             /\ line' \in {"@flag nsobid AB", "@flag nsobid ab", "@flag nrobid"} )
           => (isAcceptingPatch' = FALSE /\ outcome' = "running")
        /\ ( /\ MainLoopRead
             /\ ~isAcceptingPatch
             /\ ~C19_Starts(line') )
           => ( /\ isAcceptingPatch' = FALSE
                /\ C19_Filled(curPatch', curPatchCollection', result'.collections)
                      \subseteq C19_Filled(curPatch, curPatchCollection,
                                           result.collections) ) ]_vars

\* A content line has been read and left out after the @flag nsobid line that
\* followed a patch with contents.
C19_NotAcceptingWitness ==
    /\ line = "0100 DEAD"
    /\ ~isAcceptingPatch
    /\ outcome = "running"
    /\ curPatch.contents = <<>>
    /\ result.collections # <<>>
    /\ input.pos > 2
    /\ input.lines[input.pos - 2] = "@flag nsobid ab"

\* A @stop line.
C20_IsStop(str) == firstToken(getStringToLowerCase(getLineNoComment(str))) = "@stop"

\* The lines before the @stop line, the last line read.
C20_Before == SubSeq(input.lines, 1, input.pos - 2)

\* What parsePchtxt returns for the input cut right before the @stop line that
\* has just been read.  The metadata scan of that input ends at its first empty
\* line, and the main loop then reads every line and meets the end of the input
\* in the parsing status the @stop line was met in; without an empty line the
\* metadata scan runs to the end of the input and the main loop reads nothing.
C20_Truncated ==
    IF \E k \in 1..Len(C20_Before) : trim(C20_Before[k]) = ""
    THEN [meta        |-> result.meta,
          collections |-> FinalCollections(result.collections, curPatchCollection,
                                           curPatch)]
    ELSE [meta |-> result.meta, collections |-> <<>>]

\* C20: a @stop line read by the main loop changes neither the patches nor the
\* collections, no line is read after it, and what parsePchtxt then returns is
\* what it returns for the input cut right before the @stop line: the pending
\* patch and collection are sealed as they are at the end of the input.
C20_StopAsEnd ==
    [][ /\ (MainLoopRead /\ C20_IsStop(line'))
           => ( /\ stopParsing'
                /\ result' = result
                /\ curPatch' = curPatch
                /\ curPatchCollection' = curPatchCollection
                /\ outcome' = "running" )
        /\ stopParsing => input' = input
        /\ (stopParsing /\ outcome' = "returned") => output' = C20_Truncated ]_vars

\* The last line starting with '/' among the first k lines, "" without one.
C21_LastComment(lines, k) ==
    IF \E i \in 1..k : FirstChar(lines[i]) = "/"
    THEN lines[LastOr({i \in 1..k : FirstChar(lines[i]) = "/"}, 1)]
    ELSE ""

\* The name a comment line gives: its text up to the last '[', without the
\* spaces at its end, or all of it when it has no '['.
C21_Name(comment) ==
    CASE comment = "/ n [a] [ me ]" -> "n [a]"
      [] comment = "/ name [me]"    -> "name"
      [] comment = "/ plain"        -> "plain"
      [] comment = ""               -> ""

\* The author a comment line gives: the text between the last '[' and the last
\* ']', without the spaces around it, or nothing when it has no '['.
C21_Author(comment) ==
    CASE comment = "/ n [a] [ me ]" -> "me"
      [] comment = "/ name [me]"    -> "me"
      [] comment = "/ plain"        -> ""
      [] comment = ""               -> ""

\* An @enabled line has been read and has started a patch.
C21_Enabled == MainLoopRead /\ line' = "@enabled" /\ outcome' = "running"

\* The patch started has the name and the author of the last comment line.
C21_FromComment ==
    /\ curPatch'.name = C21_Name(C21_LastComment(input.lines, input.pos - 1))
    /\ curPatch'.author = C21_Author(C21_LastComment(input.lines, input.pos - 1))

C22_MetaRead == pc = "meta" /\ input'.pos = input.pos + 1

\* The value a tag line of the metadata block gives: all that follows the tag,
\* without the spaces around it and without its quotation marks.
C22_Value(str) ==
    CASE str = "@title \"T\""   -> "T"
      [] str = "@url http://u" -> "http://u"

\* C22: a line @title, @program or @url of the metadata block stores all that
\* follows the tag, trimmed and without its quotation marks when it has them
\* at both ends, also when the value has no quotation marks and holds a '/'.
C22_WholeValue ==
    [][ C22_MetaRead =>
          /\ input'.lines[input.pos] = "@title \"T\""
             => metaResult'.title = C22_Value("@title \"T\"")
          /\ input'.lines[input.pos] = "@url http://u"
             => metaResult'.url = C22_Value("@url http://u") ]_vars

\* The legacy title a line starting with '#' gives: what follows the '#',
\* without the comment at the end of the line and the spaces around.
C23_Legacy(str) ==
    CASE str = "# legacy"     -> "legacy"
      [] str = "# second / c" -> "second"

\* The numbers of the lines starting with '#' among the lines read.
C23_Echoes == {i \in 1..(input.pos - 1) : FirstChar(input.lines[i]) = "#"}

\* A line @title with a title that is not empty has been read.
C23_Titled == \E i \in 1..(input.pos - 1) : input.lines[i] = "@title \"T\""

\* getPchtxtMeta returns to parsePchtxt.
C23_Returns == pc = "metaEnd" /\ pc' = "parse"

\* parsePchtxt returns its result.
C23_Done == outcome = "running" /\ outcome' = "returned"

\* C23 as stated: without a title set by @title, the title returned is that of
\* the first line starting with '#' of the metadata block.
C23_FirstLegacy ==
    [][ (C23_Returns /\ ~C23_Titled /\ C23_Echoes # {})
          => result'.meta.title = C23_Legacy(input.lines[FirstOr(C23_Echoes, 1)])
      ]_vars

\* C23: without a title set by @title, the title returned is that of the last
\* line starting with '#' of the metadata block (each such line overwrites the
\* title of the one before), and is empty without such a line; a title set by
\* @title is returned as it is.
C23_LastLegacy ==
    [][ /\ C23_Returns =>
             result'.meta.title =
                 IF C23_Titled THEN "T"
                 ELSE IF C23_Echoes = {} THEN ""
                 ELSE C23_Legacy(input.lines[LastOr(C23_Echoes, 1)])
        /\ C23_Done => output'.meta.title = result.meta.title ]_vars

\* The metadata block had two lines starting with '#' and no @title: the
\* title is that of the second.
C23_LastLegacyWitness ==
    /\ pc = "parse"
    /\ Len(input.lines) >= 2
    /\ input.lines[1] = "# legacy"
    /\ input.lines[2] = "# second / c"
    /\ result.meta.title = "second"

\* The lines that set the offset shift or the endianness.
C24_FlagLines ==
    {"@flag offset_shift 0x10", "@flag offset_shift -1", "@flag be", "@flag LE"}

\* The main loop has read a line that sets the offset shift or the endianness.
C24_FlagRead == MainLoopRead /\ input'.lines[input.pos] \in C24_FlagLines

\* The main loop has stored the content of the line as bytes of a patch that
\* is no cheat.
C24_Stored(str) ==
    /\ MainLoopRead
    /\ input'.lines[input.pos] = str
    /\ isAcceptingPatch
    /\ curPatch.type # "AMS"

\* C24: the offset shift and the endianness change only on a line @flag
\* offset_shift, @flag be or @flag le; no other step, be it the start of a
\* patch, a cheat header, a change of build id or a content line, touches
\* them, and a content line is stored with the shift and the endianness in
\* force, whatever patch and collection they were set in.
C24_OnlyFlags ==
    [][ /\ ~C24_FlagRead => ( /\ curOffsetShift' = curOffsetShift
                              /\ curIsBigEndian' = curIsBigEndian )
        /\ C24_Stored("00000000 01")
           => curPatch'.contents[Len(curPatch'.contents)].offset = curOffsetShift
        /\ C24_Stored("10 0A0B")
           => curPatch'.contents[Len(curPatch'.contents)].value =
                 IF curIsBigEndian THEN <<11, 10>> ELSE <<10, 11>> ]_vars

\* A shift of 0x10 set before the build id and before the patch started is
\* the offset of the content line 00000000 that follows them.
C24_OnlyFlagsWitness ==
    /\ pc = "parse"
    /\ input.pos = 6
    /\ SubSeq(input.lines, 2, 5) = <<"@flag offset_shift 0x10", "@nsobid AB",
                                     "@enabled", "00000000 01">>
    /\ curOffsetShift = <<0, 16>>
    /\ Len(curPatch.contents) = 1
    /\ curPatch.contents[1].offset = <<0, 16>>

\* The collections the parse holds or has returned: those stored in the
\* result, those of the output, and the current one.
C25_Collections ==
    {result.collections[i] : i \in 1..Len(result.collections)}
        \cup {output.collections[i] : i \in 1..Len(output.collections)}
        \cup {curPatchCollection}

\* C25: whenever contents are accepted or the current patch has contents, the
\* current collection has a build id that is not empty; so no collection,
\* current, stored or returned, has a patch under an empty build id.
C25_BuildIdSet ==
    /\ (isAcceptingPatch \/ curPatch.contents # <<>>)
       => curPatchCollection.buildId # ""
    /\ \A c \in C25_Collections : c.patches # <<>> => c.buildId # ""

\* After a flag that set an empty build id and one that set the build id AB,
\* a patch is accepting and has got contents.
C25_BuildIdSetWitness ==
    /\ pc = "parse"
    /\ input.pos = 6
    /\ SubSeq(input.lines, 2, 5) = <<"@flag nrobid", "@flag nsobid AB",
                                     "@ENABLED ams // x", "04000000 0100 2">>
    /\ isAcceptingPatch
    /\ curPatch.contents # <<>>
    /\ curPatchCollection.buildId = "AB"

\* The build ids of a list of collections are all different.
C26_Distinct(collections) ==
    \A i, j \in 1..Len(collections) :
        collections[i].buildId = collections[j].buildId => i = j

\* C26: no two collections of the output returned have the same build id,
\* and while the current collection has patches no stored collection has its
\* build id, whether the build ids come from @flag nsobid and @flag nrobid or
\* from the legacy tag @nsobid.
C26_OnePerBuildId ==
    /\ outcome = "returned" => C26_Distinct(output.collections)
    /\ C26_Distinct(result.collections)
    /\ (pc = "parse" /\ curPatchCollection.patches # <<>>)
       => FindCollection(result.collections, curPatchCollection.buildId) = 0

============================================================================
